---- MODULE Spec2Model ----
(***************************************************************************)
(* Conversational orchestration layer of the wellness assistant (MainApp): *)
(* the chat router handleSendMessage, the planning call planWithManager    *)
(* with its response parser, the day-by-day consent machine                *)
(* (startDayByDayApproval / handleDayApproval), the legacy batch consent   *)
(* and the reset-conversation button.                                      *)
(*                                                                         *)
(* React state is the VARIABLES.  An async handler is a record in          *)
(* `handlers`: it holds the values its closure captured when the event     *)
(* fired and its position (the await it is suspended on).  Every action is *)
(* one synchronous run of code between two awaits.  setTimeout callbacks   *)
(* are the records of `timers`.  Typing a text and submitting it is one    *)
(* step: onChange only stores the text that handleSendMessage then reads.  *)
(*                                                                         *)
(* The burnout check-in of MainApp (questionnaire modal, answerQuestion,   *)
(* submitAnswer, the cooldown wake-ups) and the hook useBurnoutTimer share *)
(* the clock `now`, counted in minutes.                                    *)
(***************************************************************************)
EXTENDS Bags, Integers, Sequences, FiniteSets, TLC

VARIABLES
    messages,            \* chat log (useState messages)
    inputMessage,        \* text in the input box
    activeEmail,         \* authorized calendar email or "null"
    currentSessionId,    \* backend session token or NoSession
    pendingProposals,    \* legacy batch: proposals awaiting consent
    awaitingConsent,     \* legacy batch consent flag
    currentDayProposals, \* proposals of the day under review
    currentDayIndex,     \* index of the day under review
    groupedProposals,    \* day key -> proposals of that day
    awaitingDayConsent,  \* day-by-day consent flag
    tzOffset,            \* client's timezone offset, hours east of UTC
    handlers,            \* the suspended async handlers
    timers,              \* pending setTimeout callbacks, in the order set
    lastPlan,            \* what the latest planWithManager call returned
    sends,               \* number of messages the user has submitted so far
    now,                 \* Date.now(), in minutes
    questionsAvailable,  \* MainApp: the check-in button is enabled
    needsInitialQuestions, \* MainApp: the initial assessment is not finished
    isQuestionnaireOpen, \* MainApp: the questionnaire modal is open
    cooldownUntil,       \* MainApp: end of the cooldown or NoTime
    burnoutScore,        \* MainApp: latest score of the backend or NoScore
    currentQ,            \* MainApp: qid of the question shown or NoQuestion
    initialCount,        \* MainApp: initialCountRef.current
    wakes,               \* MainApp: due times of the pending cooldown setTimeouts
    checkins,            \* MainApp: the suspended check-in handlers
    answered,            \* backend: number of answers recorded
    clicks,              \* number of answer buttons pressed so far
    burnoutState,        \* useBurnoutTimer: { score, lastEval, questionsCompleted, nextQuestionDue }
    hookQuestionsAvailable \* useBurnoutTimer: questionsAvailable

vars == << messages, inputMessage, activeEmail, currentSessionId, pendingProposals,
           awaitingConsent, currentDayProposals, currentDayIndex, groupedProposals,
           awaitingDayConsent, tzOffset, handlers, timers, lastPlan, sends,
           now, questionsAvailable, needsInitialQuestions, isQuestionnaireOpen,
           cooldownUntil, burnoutScore, currentQ, initialCount, wakes, checkins,
           answered, clicks, burnoutState, hookQuestionsAvailable >>

\* the chat and review state of MainApp
chatVars == << messages, inputMessage, activeEmail, currentSessionId, pendingProposals,
               awaitingConsent, currentDayProposals, currentDayIndex, groupedProposals,
               awaitingDayConsent, tzOffset, handlers, timers, lastPlan, sends >>

\* the state of the check-in questionnaire of MainApp
questionnaireVars == << questionsAvailable, needsInitialQuestions, isQuestionnaireOpen,
                        cooldownUntil, burnoutScore, currentQ, initialCount, wakes,
                        checkins, answered, clicks >>

\* the same with the clock
checkinVars == << now, questionnaireVars >>

\* the state of the hook useBurnoutTimer
timerVars == << burnoutState, hookQuestionsAvailable >>

-----------------------------------------------------------------------------
(* Bounds of the model *)

\* number of messages the user submits in one run
MaxSends == 2
\* currentSessionId while there is no session (null)
NoSession == 0

\* questionsCompleted of useBurnoutTimer grows no further than this
MaxCompleted == 9
\* longest proposal list handed to startDayByDayApproval on its own
MaxProposals == 3
\* the time value of new Date(x) for an x that is no date (NaN)
InvalidDate == -1

\* the timezone offsets of the client, hours east of UTC
TZOffsets == {0, 9}

-----------------------------------------------------------------------------
(* Texts.  A text is a sequence of tokens: words, and " " for a run of     *)
(* white space at either end (words inside a text are separated by single  *)
(* blanks, which are not written).                                         *)

toLowerCase(w) ==
    CASE w = "Yes" -> "yes"
      [] w = "Schedule" -> "schedule"
      [] OTHER -> w

RECURSIVE TrimStart(_)
TrimStart(s) == IF s # <<>> /\ Head(s) = " " THEN TrimStart(Tail(s)) ELSE s

RECURSIVE TrimEnd(_)
TrimEnd(s) ==
    IF s # <<>> /\ s[Len(s)] = " " THEN TrimEnd(SubSeq(s, 1, Len(s) - 1)) ELSE s

Trim(s) == TrimEnd(TrimStart(s))

LowerText(s) == [i \in 1..Len(s) |-> toLowerCase(s[i])]

SchedulingWords == {"plan", "schedule", "add", "block", "book", "insert"}
AffirmativeWords == {"y", "yes", "approve", "ok", "okay", "sure"}
NegativeWords == {"n", "no", "cancel", "skip"}

\* mutant: the pattern anchored at the start of the message
wantsSchedulingIntentAtStart(s) == s # <<>> /\ toLowerCase(s[1]) \in SchedulingWords

\* /\b(plan|schedule|add|block|book|insert)\b/i.test(s)
wantsSchedulingIntent(s) == \E i \in 1..Len(s) : toLowerCase(s[i]) \in SchedulingWords

\* mutant: the affirmative pattern without its anchors
IsAffirmativeContains(s) == \E i \in 1..Len(s) : s[i] \in AffirmativeWords

\* /^(y|yes|approve|ok|okay|sure)$/.test(s), s already lower-cased
IsAffirmative(s) == Len(s) = 1 /\ s[1] \in AffirmativeWords

\* mutant: a plain `else` in place of the negative whitelist
IsNegativeAnyOther(s) == ~ IsAffirmative(s)

\* /^(n|no|cancel|skip)$/.test(s), s already lower-cased
IsNegative(s) == Len(s) = 1 /\ s[1] \in NegativeWords

\* what the user types into the input box
Inputs ==
    { <<" ", "Yes">>, <<"no">>, <<"yes", "please">>, <<"please", "Schedule", "more">>,
      <<" ">> }

-----------------------------------------------------------------------------
(* Proposals.  A timestamp is written without a zone, as hours counted     *)
(* from midnight of day 0: 24 * day + hour.                                *)

At(day, hour) == 24 * day + hour

Proposal(summary, start, end) == [summary |-> summary, start |-> start, end |-> end]

\* the JSON objects a payload token stands for; "proposals" absent => "none"
JSONparse(tok) ==
    CASE tok = "{two}" ->
           [ok |-> TRUE, hasProposals |-> TRUE,
            proposals |-> << Proposal("Walk", At(2, 9), At(2, 10)),
                             Proposal("Meditate", At(3, 8), At(3, 9)) >>]
      [] tok = "{three}" ->
           [ok |-> TRUE, hasProposals |-> TRUE,
            proposals |-> << Proposal("Run", At(2, 18), At(2, 19)),
                             Proposal("Nap", At(2, 13), At(2, 14)),
                             Proposal("Read", At(2, 20), At(2, 21)) >>]
      [] tok = "{empty}" -> [ok |-> TRUE, hasProposals |-> TRUE, proposals |-> <<>>]
      [] tok = "{nokey}" -> [ok |-> TRUE, hasProposals |-> FALSE, proposals |-> <<>>]
      [] OTHER -> [ok |-> FALSE, hasProposals |-> FALSE, proposals |-> <<>>]

IsBraced(tok) == tok \in {"{two}", "{three}", "{empty}", "{nokey}", "{bad}"}

-----------------------------------------------------------------------------
(* planWithManager: the parser of the planning backend's raw text.  A raw   *)
(* text is a sequence of tokens: prose words, " ", the markers              *)
(* "<response>", "<payload>", "</payload>", and braced JSON tokens.         *)

RECURSIVE SkipSpaces(_, _)
\* first position >= i of raw that holds no white space (Len(raw) + 1 if none)
SkipSpaces(raw, i) ==
    IF i <= Len(raw) /\ raw[i] = " " THEN SkipSpaces(raw, i + 1) ELSE i

\* data.raw_text.match(/^(.*?)(?=<response>)/s): the text before the first
\* "<response>", trimmed; "" when the text holds no "<response>"
AnalysisOf(raw) ==
    IF \E i \in 1..Len(raw) : raw[i] = "<response>"
    THEN LET i == CHOOSE i \in 1..Len(raw) :
                      /\ raw[i] = "<response>"
                      /\ \A j \in 1..(i - 1) : raw[j] # "<response>"
         IN  Trim(SubSeq(raw, 1, i - 1))
    ELSE <<>>

\* a match of /<payload>\s*(\{.*?\})\s*<\/payload>/s that starts at i and
\* whose group ends at j
PayloadMatchAt(raw, i, j) ==
    /\ raw[i] = "<payload>"
    /\ LET b == SkipSpaces(raw, i + 1)
       IN  /\ b <= j
           /\ IsBraced(raw[b])
           /\ IsBraced(raw[j])
           /\ LET e == SkipSpaces(raw, j + 1)
              IN  e <= Len(raw) /\ raw[e] = "</payload>"

HasPayloadMatch(raw) ==
    \E i \in 1..Len(raw) : \E j \in i..Len(raw) : PayloadMatchAt(raw, i, j)

\* payloadMatch[1]: leftmost start, then the shortest group (.*? is lazy)
PayloadGroup(raw) ==
    LET i == CHOOSE i \in 1..Len(raw) :
                 /\ \E j \in i..Len(raw) : PayloadMatchAt(raw, i, j)
                 /\ \A i2 \in 1..(i - 1) :
                        ~ \E j \in i2..Len(raw) : PayloadMatchAt(raw, i2, j)
        j == CHOOSE j \in i..Len(raw) :
                 /\ PayloadMatchAt(raw, i, j)
                 /\ \A j2 \in i..(j - 1) : ~ PayloadMatchAt(raw, i, j2)
    IN  SubSeq(raw, SkipSpaces(raw, i + 1), j)

\* JSON.parse(payloadMatch[1]) inside try/catch; payload.proposals || []
ProposalsOf(raw) ==
    IF ~ HasPayloadMatch(raw) THEN <<>>
    ELSE LET g == PayloadGroup(raw)
         IN  IF Len(g) = 1 /\ JSONparse(g[1]).ok /\ JSONparse(g[1]).hasProposals
             THEN JSONparse(g[1]).proposals
             ELSE <<>>

\* planWithManager's { ok: true, proposals, detailedAnalysis, text } for the
\* raw text of a response
ParsedPlan(raw) ==
    [returned |-> TRUE, ok |-> TRUE, proposals |-> ProposalsOf(raw),
     detailedAnalysis |-> AnalysisOf(raw), text |-> raw]

\* the raw texts the planning backend answers with
RawTexts ==
    { << "Analysis", "<response>", "<payload>", "{two}", "</payload>" >>,
      << "Analysis", "<payload>", " ", "{bad}", "</payload>" >>,
      << " ", "Analysis", " ", "<response>", "<payload>", "{three}", " ", "</payload>" >>,
      << "Analysis", "<response>", "<payload>", "{bad}", "</payload>" >>,
      << "Analysis", "<response>", "<payload>", "{empty}", "</payload>" >>,
      << "<response>", "<payload>", "{nokey}", "</payload>" >>,
      << " ", "Analysis", " " >> }

-----------------------------------------------------------------------------
(* groupProposalsByDay and the day lists *)

\* new Date(p.start).toISOString().split('T')[0]: the UTC calendar date of a
\* timestamp that was written without a zone and so is read as local time
DayKey(p, tz) == (p.start - tz) \div 24

\* new Date(p.start).toLocaleDateString(...): the local calendar date
DayLabel(p) == p.start \div 24

WithLabel(p) ==
    [summary |-> p.summary, start |-> p.start, end |-> p.end, dayLabel |-> DayLabel(p)]

\* date.toISOString() throws a RangeError on an invalid date, and with it the
\* forEach of groupProposalsByDay and its caller
groupingThrows(proposals) ==
    \E i \in 1..Len(proposals) : proposals[i].start = InvalidDate

groupProposalsByDay(proposals, tz) ==
    LET labelled == [i \in 1..Len(proposals) |-> WithLabel(proposals[i])]
        keys == { DayKey(proposals[i], tz) : i \in 1..Len(proposals) }
    IN  [k \in keys |-> SelectSeq(labelled, LAMBDA p : DayKey(p, tz) = k)]

RECURSIVE SortKeys(_)
\* Object.keys(grouped).sort()
SortKeys(S) ==
    IF S = {} THEN <<>>
    ELSE LET m == CHOOSE x \in S : \A y \in S : x <= y
         IN  <<m>> \o SortKeys(S \ {m})

DayKeysOf(grouped) == SortKeys(DOMAIN grouped)

-----------------------------------------------------------------------------
(* Chat messages *)

UserMsg(text) ==
    [sender |-> "user", kind |-> "text", text |-> text, n |-> 0, day |-> 0, items |-> <<>>]

Buddy(kind) ==
    [sender |-> "buddy", kind |-> kind, text |-> <<>>, n |-> 0, day |-> 0, items |-> <<>>]

BuddyText(kind, text) ==
    [sender |-> "buddy", kind |-> kind, text |-> text, n |-> 0, day |-> 0, items |-> <<>>]

\* `Hi ${userData.name}! I'm your Unfrazzle Buddy. ...`
Greeting == Buddy("greeting")

\* "Please reply with **yes** or **no** for this day's activities."
DayReprompt == Buddy("dayReprompt")

\* `Added ${acceptedCount} activities for ${currentDayProposals[0]?.dayLabel}`
AddedMsg(n, day) ==
    [sender |-> "buddy", kind |-> "added", text |-> <<>>, n |-> n, day |-> day, items |-> <<>>]

\* `Skipped activities for ${currentDayProposals[0]?.dayLabel}`
SkippedMsg(day) ==
    [sender |-> "buddy", kind |-> "skipped", text |-> <<>>, n |-> 0, day |-> day, items |-> <<>>]

\* "Finished reviewing all days! Let me know if you need anything else."
FinishedMsg == Buddy("finishedAll")

\* dayProposals[0]?.dayLabel; -1 stands for undefined
FirstLabel(dayProposals) == IF dayProposals = <<>> THEN -1 ELSE dayProposals[1].dayLabel

\* formatDayProposals(day) + "Approve activities for this day? (yes/no)":
\* the header names the first proposal's dayLabel, one line per proposal
DayPromptMsg(dayProposals) ==
    [sender |-> "buddy", kind |-> "dayPrompt", text |-> <<>>, n |-> 0,
     day |-> FirstLabel(dayProposals),
     items |-> [i \in 1..Len(dayProposals) |-> dayProposals[i].summary]]

-----------------------------------------------------------------------------
(* Async handlers and timers *)

\* a handler before its first await; id numbers the user's submissions, the
\* other fields keep what the closure captured and the calls issued so far
NewHandler ==
    [id |-> sends + 1, pc |-> "run", approve |-> FALSE, sid |-> NoSession, dayProps |-> <<>>, idx |-> 0,
     groups |-> <<>>, i |-> 0, acceptedCount |-> 0, calls |-> <<>>, results |-> <<>>,
     text |-> <<>>]

\* the handler hr is suspended / has moved on to hr2 / has run to its end
Suspend(hr) == handlers' = handlers \cup {hr}
Resume(hr, hr2) == handlers' = (handlers \ {hr}) \cup {hr2}
Finish(hr) == handlers' = handlers \ {hr}

\* mutant: the decision is always "accept" (as in the legacy apply loop)
DecisionCallAutoAccept(sid, accept) == [session_id |-> sid, accept |-> TRUE]

\* the body of one POST /api/manager/schedule/decision
DecisionCall(sid, accept) == [session_id |-> sid, accept |-> accept]

\* the value of `plan` in the router: nothing yet, or the object planWithManager
\* returned (a call whose fetch rejects returns nothing)
NoPlan ==
    [returned |-> FALSE, ok |-> FALSE, proposals |-> <<>>, detailedAnalysis |-> <<>>,
     text |-> <<>>]
PlanResult(ok, proposals) ==
    [returned |-> TRUE, ok |-> ok, proposals |-> proposals, detailedAnalysis |-> <<>>,
     text |-> <<>>]

\* setTimeout(..., 1000) of handleDayApproval, setTimeout(..., 2000) of the router
DayPromptTimer(nextDay) ==
    [kind |-> "dayPrompt", delay |-> 1000, proposals |-> nextDay, sid |-> NoSession]

StartReviewTimer(proposals, sid) ==
    [kind |-> "startReview", delay |-> 2000, proposals |-> proposals, sid |-> sid]

\* null for a time, a score, a question
NoTime == -1
NoScore == -1
NoQuestion == 0

\* MainApp's check-in state after construction; the backend has no answers
InitCheckin ==
    /\ now = 0
    /\ questionsAvailable = TRUE
    /\ needsInitialQuestions = TRUE
    /\ isQuestionnaireOpen = FALSE
    /\ cooldownUntil = NoTime
    /\ burnoutScore = NoScore
    /\ currentQ = NoQuestion
    /\ initialCount = 0
    /\ wakes = {}
    /\ checkins = EmptyBag
    /\ answered = 0
    /\ clicks = 0

\* useBurnoutTimer after construction: score 35, nothing completed, nothing due
InitTimer ==
    /\ burnoutState = [score |-> 35, lastEval |-> NoTime, questionsCompleted |-> 0,
                       nextQuestionDue |-> NoTime]
    /\ hookQuestionsAvailable = FALSE

Init ==
    /\ messages = << Greeting >>
    /\ inputMessage = <<>>
    /\ activeEmail = "null"
    /\ currentSessionId = NoSession
    /\ pendingProposals = <<>>
    /\ awaitingConsent = FALSE
    /\ currentDayProposals = <<>>
    /\ currentDayIndex = 0
    /\ groupedProposals = <<>>
    /\ awaitingDayConsent = FALSE
    /\ tzOffset \in TZOffsets
    /\ handlers = {}
    /\ timers = <<>>
    /\ lastPlan = NoPlan
    /\ sends = 0
    /\ InitCheckin
    /\ InitTimer

-----------------------------------------------------------------------------
(* Backend answers *)

\* the backend issues a fresh session token with every planning call: the
\* token of the call made by handler hr
SessionIdOf(hr) == hr.id

\* what a POST /api/manager/schedule/decision settles with: the fetch rejects
\* (net = FALSE), or it resolves with res.ok and the body {result:{status}, finished}
DecisionOutcomes ==
    { [net |-> FALSE, ok |-> FALSE, status |-> "none", finished |-> FALSE] }
    \cup [net : {TRUE}, ok : BOOLEAN, status : {"scheduled", "skipped"}, finished : BOOLEAN]

\* how a decision call ended, as the claims name it
ResultClass(out) ==
    IF ~ out.net \/ ~ out.ok THEN "failed"
    ELSE IF out.status = "scheduled" THEN "scheduled" ELSE "notScheduled"

\* what a POST /api/manager/schedule/start settles with (status 0: the fetch rejects)
PlanResponses ==
    [status : {0, 401, 500}, finished : {FALSE}, hasSession : {FALSE}, raw_text : {<<>>}]
    \cup [status : {200}, finished : {TRUE}, hasSession : {FALSE}, raw_text : {<<>>}]
    \cup [status : {200}, finished : {FALSE}, hasSession : {TRUE}, raw_text : RawTexts]

\* what a POST /api/manager/support settles with; body: the parsed JSON holds a
\* text, holds none, or the body is no JSON
SupportResponses ==
    { [net |-> FALSE, ok |-> FALSE, body |-> "none"] }
    \cup [net : {TRUE}, ok : BOOLEAN, body : {"text", "noText", "notJson"}]

-----------------------------------------------------------------------------
(* startDayByDayApproval and handleDayApproval *)

\* startDayByDayApproval(proposals, sessionId), appending to the chat log msgs
startDayByDayApproval(proposals, sessionId, msgs) ==
    IF groupingThrows(proposals)
    THEN /\ messages' = msgs
         /\ UNCHANGED << groupedProposals, currentDayIndex, currentSessionId,
                         currentDayProposals, awaitingDayConsent >>
    ELSE
    LET grouped == groupProposalsByDay(proposals, tzOffset)
        dayKeys == DayKeysOf(grouped)
    IN  /\ groupedProposals' = grouped
        /\ currentDayIndex' = 0
        /\ currentSessionId' = sessionId
        /\ IF Len(dayKeys) > 0
           THEN /\ currentDayProposals' = grouped[dayKeys[1]]
                /\ awaitingDayConsent' = TRUE
                /\ messages' = Append(msgs, DayPromptMsg(grouped[dayKeys[1]]))
           ELSE /\ messages' = msgs
                /\ UNCHANGED << currentDayProposals, awaitingDayConsent >>

\* the summary line of a day: "Added N activities ..." or "Skipped activities ..."
DaySummary(hr) ==
    IF hr.approve /\ Len(hr.dayProps) > 0
    THEN AddedMsg(hr.acceptedCount, FirstLabel(hr.dayProps))
    ELSE SkippedMsg(FirstLabel(hr.dayProps))

\* nextDayIndex of handleDayApproval, from the index its closure captured
NextDayIndex(hr) == hr.idx + 1

\* whether handleDayApproval finds another day after the one it decided
MoreDays(hr) == NextDayIndex(hr) < Len(DayKeysOf(hr.groups))

\* handleDayApproval after its loop ("Move to next day"), run by the handler
\* record hr, appending to the chat log msgs
MoveToNextDay(hr, msgs) ==
    LET dayKeys == DayKeysOf(hr.groups)
    IN  IF MoreDays(hr)
        THEN LET nextDay == hr.groups[dayKeys[NextDayIndex(hr) + 1]]
             IN  /\ messages' = Append(msgs, DaySummary(hr))
                 /\ currentDayIndex' = NextDayIndex(hr)
                 /\ currentDayProposals' = nextDay
                 /\ timers' = Append(timers, DayPromptTimer(nextDay))
                 /\ UNCHANGED << awaitingDayConsent, currentSessionId, groupedProposals >>
        ELSE /\ messages' = Append(Append(msgs, DaySummary(hr)), FinishedMsg)
             /\ awaitingDayConsent' = FALSE
             /\ currentSessionId' = NoSession
             /\ groupedProposals' = <<>>
             /\ currentDayProposals' = <<>>
             /\ currentDayIndex' = 0
             /\ UNCHANGED timers

\* the handler record of a handleDayApproval(approve) that has issued its first
\* decision call; it keeps the state its closure captured
DayApprovalHandler(approve) ==
    [NewHandler EXCEPT
        !.pc = "awaitDecision", !.approve = approve, !.sid = currentSessionId,
        !.dayProps = currentDayProposals, !.idx = currentDayIndex,
        !.groups = groupedProposals, !.i = 1,
        !.calls = << DecisionCall(currentSessionId, approve) >>]

\* handleDayApproval(approve) up to its first await
handleDayApproval(approve, msgs) ==
    IF Len(currentDayProposals) > 0
    THEN /\ Suspend(DayApprovalHandler(approve))
         /\ messages' = msgs
         /\ UNCHANGED << currentSessionId, currentDayProposals, currentDayIndex,
                         groupedProposals, awaitingDayConsent, timers >>
    ELSE /\ MoveToNextDay([NewHandler EXCEPT !.approve = approve, !.idx = currentDayIndex,
                                            !.groups = groupedProposals], msgs)
         /\ UNCHANGED handlers

\* mutant: every OK response is counted, whatever its status
CountAcceptedAnyOk(hr, out) ==
    IF hr.approve /\ out.net /\ out.ok THEN hr.acceptedCount + 1 ELSE hr.acceptedCount

\* acceptedCount after one more decision call of an accepted day has settled
CountAccepted(hr, out) ==
    IF hr.approve /\ out.net /\ out.ok /\ out.status = "scheduled"
    THEN hr.acceptedCount + 1
    ELSE hr.acceptedCount

\* a decision call of handleDayApproval settles: the loop goes on to the next
\* proposal, or the day is closed
DayDecisionSettles(hr, out) ==
    LET counted == [hr EXCEPT !.acceptedCount = CountAccepted(hr, out),
                              !.results = Append(hr.results, ResultClass(out))]
    IN  IF hr.i < Len(hr.dayProps)
        THEN /\ Resume(hr, [counted EXCEPT
                                !.i = hr.i + 1,
                                !.calls = Append(hr.calls, DecisionCall(hr.sid, hr.approve))])
             /\ UNCHANGED << messages, currentSessionId, currentDayProposals, currentDayIndex,
                             groupedProposals, awaitingDayConsent, timers >>
        ELSE /\ MoveToNextDay(counted, messages)
             /\ Finish(hr)

-----------------------------------------------------------------------------
(* Legacy all-at-once consent: applyProposalsWithManager, applyProposalsDirect *)

\* `Added ${res.count} item(s) to your Google Calendar`; -1 stands for undefined
LegacyAddedMsg(n) ==
    [sender |-> "buddy", kind |-> "legacyAdded", text |-> <<>>, n |-> n, day |-> 0,
     items |-> <<>>]

\* the router after `await applyProposalsWithManager(...)`: one message, then
\* setPendingProposals([]), setCurrentSessionId(null), setAwaitingConsent(false)
LegacyClose(msg, msgs) ==
    /\ messages' = Append(msgs, msg)
    /\ pendingProposals' = <<>>
    /\ currentSessionId' = NoSession
    /\ awaitingConsent' = FALSE

\* a handler suspended in the decision loop of applyProposalsWithManager
LegacyHandler ==
    [NewHandler EXCEPT
        !.pc = "awaitLegacy", !.approve = TRUE, !.sid = currentSessionId,
        !.dayProps = pendingProposals, !.i = 1,
        !.calls = << DecisionCall(currentSessionId, TRUE) >>]

\* applyProposalsWithManager(currentSessionId, pendingProposals) up to its first
\* await, and the router's code after it when nothing is awaited
applyProposalsWithManager(msgs) ==
    IF currentSessionId = NoSession /\ activeEmail = "null"
    THEN /\ LegacyClose(BuddyText("legacyError", <<"No authorized calendar email.">>), msgs)
         /\ UNCHANGED handlers
    ELSE IF currentSessionId # NoSession /\ pendingProposals = <<>>
    THEN /\ LegacyClose(LegacyAddedMsg(0), msgs)
         /\ UNCHANGED handlers
    ELSE /\ Suspend(IF currentSessionId = NoSession
                     THEN [NewHandler EXCEPT !.pc = "awaitApply", !.dayProps = pendingProposals]
                     ELSE LegacyHandler)
         /\ messages' = msgs
         /\ UNCHANGED << pendingProposals, currentSessionId, awaitingConsent >>

\* a call of the legacy apply settles (the decision loop has no try/catch: a
\* rejected fetch ends the handler with nothing said and nothing cleared)
LegacySettles(hr, out) ==
    LET count == IF out.ok /\ out.status = "scheduled"
                 THEN hr.acceptedCount + 1 ELSE hr.acceptedCount
    IN  IF ~ out.net
        THEN /\ Finish(hr)
             /\ UNCHANGED << messages, pendingProposals, currentSessionId, awaitingConsent >>
        ELSE IF hr.pc = "awaitApply"
        THEN /\ LegacyClose(IF out.ok THEN LegacyAddedMsg(-1)
                            ELSE BuddyText("legacyError", <<"Apply error">>), messages)
             /\ Finish(hr)
        ELSE IF out.ok /\ ~ out.finished /\ hr.i < Len(hr.dayProps)
        THEN /\ Resume(hr, [hr EXCEPT !.acceptedCount = count, !.i = hr.i + 1,
                                       !.calls = Append(hr.calls, DecisionCall(hr.sid, TRUE))])
             /\ UNCHANGED << messages, pendingProposals, currentSessionId, awaitingConsent >>
        ELSE /\ LegacyClose(LegacyAddedMsg(count), messages)
             /\ Finish(hr)

-----------------------------------------------------------------------------
(* handleSendMessage: the router *)

\* mutant: the re-prompt of the day-consent branch does not return, the
\* message goes on to the support call
DayConsentBranchFallsThrough(s, msgs) ==
    /\ IF IsAffirmative(s) THEN handleDayApproval(TRUE, msgs)
       ELSE IF IsNegative(s) THEN handleDayApproval(FALSE, msgs)
       ELSE /\ messages' = Append(msgs, DayReprompt)
            /\ Suspend([NewHandler EXCEPT !.pc = "awaitSupport", !.text = s])
            /\ UNCHANGED << currentSessionId, currentDayProposals, currentDayIndex,
                            groupedProposals, awaitingDayConsent, timers >>
    /\ UNCHANGED << pendingProposals, awaitingConsent, lastPlan >>

\* 1) awaitingDayConsent: the day-consent branch, s the lower-cased text
DayConsentBranch(s, msgs) ==
    /\ IF IsAffirmative(s) THEN handleDayApproval(TRUE, msgs)
       ELSE IF IsNegative(s) THEN handleDayApproval(FALSE, msgs)
       ELSE /\ messages' = Append(msgs, DayReprompt)
            /\ UNCHANGED << currentSessionId, currentDayProposals, currentDayIndex,
                            groupedProposals, awaitingDayConsent, handlers, timers >>
    /\ UNCHANGED << pendingProposals, awaitingConsent, lastPlan >>

\* 2) awaitingConsent: the legacy batch-consent branch
LegacyConsentBranch(s, msgs) ==
    /\ IF IsAffirmative(s) THEN applyProposalsWithManager(msgs)
       ELSE IF IsNegative(s) THEN
            /\ LegacyClose(Buddy("legacyDeclined"), msgs)
            /\ UNCHANGED handlers
       ELSE /\ messages' = Append(msgs, Buddy("legacyReprompt"))
            /\ UNCHANGED << pendingProposals, currentSessionId, awaitingConsent, handlers >>
    /\ UNCHANGED << currentDayProposals, currentDayIndex, groupedProposals,
                    awaitingDayConsent, timers, lastPlan >>

\* 3) wantsSchedulingIntent: planWithManager(3) up to its first await; without
\* an authorized email it returns at once and the router shows its message
SchedulingBranch(msgs) ==
    /\ IF activeEmail = "null"
       THEN /\ messages' = Append(msgs,
                   BuddyText("planner", <<"Please connect Google Calendar first.">>))
            /\ lastPlan' = PlanResult(FALSE, <<>>)
            /\ UNCHANGED handlers
       ELSE /\ Suspend([NewHandler EXCEPT !.pc = "awaitPlan"])
            /\ messages' = msgs
            /\ UNCHANGED lastPlan
    /\ UNCHANGED << currentSessionId, pendingProposals, awaitingConsent, currentDayProposals,
                    currentDayIndex, groupedProposals, awaitingDayConsent, timers >>

\* 4) otherwise: POST /api/manager/support with the message text
SupportBranch(userText, msgs) ==
    /\ Suspend([NewHandler EXCEPT !.pc = "awaitSupport", !.text = userText])
    /\ messages' = msgs
    /\ UNCHANGED lastPlan
    /\ UNCHANGED << currentSessionId, pendingProposals, awaitingConsent, currentDayProposals,
                    currentDayIndex, groupedProposals, awaitingDayConsent, timers >>

\* mutant: the scheduling intent is tested before the consent flags
RouteOfIntentFirst(userText) ==
    IF wantsSchedulingIntent(userText) THEN "scheduling"
    ELSE IF awaitingDayConsent THEN "dayConsent"
    ELSE IF awaitingConsent THEN "legacyConsent"
    ELSE "support"

\* the branch of the router that handles userText in the current state
RouteOf(userText) ==
    IF awaitingDayConsent THEN "dayConsent"
    ELSE IF awaitingConsent THEN "legacyConsent"
    ELSE IF wantsSchedulingIntent(userText) THEN "scheduling"
    ELSE "support"

\* the user types a text and submits it (Enter or the Send button), while
\* fewer than budget messages have been submitted
Submit(budget) ==
    \E typed \in Inputs :
    /\ Trim(typed) # <<>>
    /\ sends < budget
    /\ LET userText == Trim(typed)
           msgs == Append(messages, UserMsg(userText))
           route == RouteOf(userText)
       IN  IF route = "dayConsent" THEN DayConsentBranch(LowerText(userText), msgs)
           ELSE IF route = "legacyConsent" THEN LegacyConsentBranch(LowerText(userText), msgs)
           ELSE IF route = "scheduling" THEN SchedulingBranch(msgs)
           ELSE SupportBranch(userText, msgs)
    /\ inputMessage' = <<>>
    /\ sends' = sends + 1
    /\ UNCHANGED << activeEmail, tzOffset >>
    /\ UNCHANGED << checkinVars, timerVars >>

-----------------------------------------------------------------------------
(* The awaited calls settle, the timers fire, the buttons *)

\* a decision call settles and its handler runs on to its next await or its end
DecisionResponse ==
    \E hr \in handlers : \E out \in DecisionOutcomes :
        /\ hr.pc \in {"awaitDecision", "awaitLegacy", "awaitApply"}
        /\ IF hr.pc = "awaitDecision"
           THEN /\ DayDecisionSettles(hr, out)
                /\ UNCHANGED << pendingProposals, awaitingConsent >>
           ELSE /\ LegacySettles(hr, out)
                /\ UNCHANGED << currentDayProposals, currentDayIndex, groupedProposals,
                                awaitingDayConsent, timers >>
        /\ UNCHANGED << inputMessage, activeEmail, tzOffset, lastPlan, sends >>
        /\ UNCHANGED << checkinVars, timerVars >>

\* the message planWithManager returns with ok: false
PlannerMessage(resp) ==
    IF resp.status = 401
    THEN BuddyText("planner", <<"Authorization required. Connect Google Calendar first.">>)
    ELSE IF resp.status # 200 THEN BuddyText("planner", <<"Planner error">>)
    ELSE BuddyText("planner", <<"No suggestions at this time.">>)

\* planWithManager returns { ok: true, ... }
PlanOk(resp) == resp.status = 200 /\ ~ (resp.finished /\ ~ resp.hasSession)

\* the planning call settles and the router's scheduling branch runs to its end
PlanResponse ==
    \E hr \in handlers : \E resp \in PlanResponses :
        /\ hr.pc = "awaitPlan"
        /\ Finish(hr)
        /\ lastPlan' = IF resp.status = 0 THEN NoPlan
                       ELSE IF ~ PlanOk(resp) THEN PlanResult(FALSE, <<>>)
                       ELSE ParsedPlan(resp.raw_text)
        /\ IF resp.status = 0
           THEN UNCHANGED << messages, timers >>
           ELSE IF ~ PlanOk(resp)
           THEN /\ messages' = Append(messages, PlannerMessage(resp))
                /\ UNCHANGED timers
           ELSE IF Len(ProposalsOf(resp.raw_text)) > 0
           THEN /\ messages' = IF AnalysisOf(resp.raw_text) # <<>>
                               THEN Append(messages, BuddyText("analysis", AnalysisOf(resp.raw_text)))
                               ELSE messages
                /\ timers' = Append(timers,
                                StartReviewTimer(ProposalsOf(resp.raw_text), SessionIdOf(hr)))
           ELSE UNCHANGED << messages, timers >>
        /\ UNCHANGED << inputMessage, activeEmail, currentSessionId, pendingProposals,
                        awaitingConsent, currentDayProposals, currentDayIndex,
                        groupedProposals, awaitingDayConsent, tzOffset, sends >>
        /\ UNCHANGED << checkinVars, timerVars >>

\* the reply of the router's support branch
SupportReply(resp) ==
    IF ~ resp.net \/ resp.body = "notJson" THEN Buddy("supportError")
    ELSE IF resp.body = "text" THEN BuddyText("support", <<"advice">>)
    ELSE Buddy("supportDefault")

\* the support call settles
SupportResponse ==
    \E hr \in handlers : \E resp \in SupportResponses :
        /\ hr.pc = "awaitSupport"
        /\ Finish(hr)
        /\ messages' = Append(messages, SupportReply(resp))
        /\ UNCHANGED << inputMessage, activeEmail, currentSessionId, pendingProposals,
                        awaitingConsent, currentDayProposals, currentDayIndex,
                        groupedProposals, awaitingDayConsent, tzOffset, timers, lastPlan, sends >>
        /\ UNCHANGED << checkinVars, timerVars >>

RemoveAt(seq, k) == SubSeq(seq, 1, k - 1) \o SubSeq(seq, k + 1, Len(seq))

\* a timer may fire when no timer set before it is due earlier or together
MayFire(k) == \A j \in 1..(k - 1) : timers[j].delay > timers[k].delay

\* mutant: the router's timer offers the whole plan for the all-at-once consent
FireTimerLegacyConsent ==
    \E k \in 1..Len(timers) :
        /\ MayFire(k)
        /\ timers' = RemoveAt(timers, k)
        /\ IF timers[k].kind = "dayPrompt"
           THEN /\ messages' = Append(messages, DayPromptMsg(timers[k].proposals))
                /\ UNCHANGED << currentSessionId, pendingProposals, awaitingConsent >>
           ELSE /\ messages' = Append(messages, Buddy("legacyOffer"))
                /\ currentSessionId' = timers[k].sid
                /\ pendingProposals' = timers[k].proposals
                /\ awaitingConsent' = TRUE
        /\ UNCHANGED << inputMessage, activeEmail, currentDayProposals, currentDayIndex,
                        groupedProposals, awaitingDayConsent, tzOffset, handlers, lastPlan,
                        sends >>
        /\ UNCHANGED << checkinVars, timerVars >>

\* a setTimeout callback runs
FireTimer ==
    \E k \in 1..Len(timers) :
        /\ MayFire(k)
        /\ timers' = RemoveAt(timers, k)
        /\ IF timers[k].kind = "dayPrompt"
           THEN /\ messages' = Append(messages, DayPromptMsg(timers[k].proposals))
                /\ UNCHANGED << currentSessionId, currentDayProposals, currentDayIndex,
                                groupedProposals, awaitingDayConsent >>
           ELSE startDayByDayApproval(timers[k].proposals, timers[k].sid, messages)
        /\ UNCHANGED << inputMessage, activeEmail, pendingProposals, awaitingConsent,
                        tzOffset, handlers, lastPlan, sends >>
        /\ UNCHANGED << checkinVars, timerVars >>

\* onClick of the "Reset conversation" button
ResetConversation ==
    /\ messages' = << Greeting >>
    /\ inputMessage' = <<>>
    /\ pendingProposals' = <<>>
    /\ awaitingConsent' = FALSE
    /\ UNCHANGED << activeEmail, currentSessionId, currentDayProposals, currentDayIndex,
                    groupedProposals, awaitingDayConsent, tzOffset, handlers, timers, lastPlan, sends >>
    /\ UNCHANGED << checkinVars, timerVars >>

\* checkAuthStatus finds an authorized email after the OAuth popup closes (the
\* sign-in button is rendered only while no calendar is connected)
checkAuthStatus ==
    /\ activeEmail = "null"
    /\ activeEmail' = "user@example.com"
    /\ UNCHANGED << messages, inputMessage, currentSessionId, pendingProposals,
                    awaitingConsent, currentDayProposals, currentDayIndex, groupedProposals,
                    awaitingDayConsent, tzOffset, handlers, timers, lastPlan, sends >>
    /\ UNCHANGED << checkinVars, timerVars >>

handleSendMessage == Submit(MaxSends)

\* everything but the user's submissions
Background ==
    \/ DecisionResponse
    \/ PlanResponse
    \/ SupportResponse
    \/ FireTimer
    \/ ResetConversation
    \/ checkAuthStatus

Next == handleSendMessage \/ Background

Spec == Init /\ [][Next]_vars

\* the same program with one more submission in a run
handleSendMessageLong == Submit(MaxSends + 1)

NextLong == handleSendMessageLong \/ Background

SpecLong == Init /\ [][NextLong]_vars

-----------------------------------------------------------------------------
(* The start of a review on its own: the planning call of the first message *)
(* has returned a proposal list and the router's 2000 ms timer is pending.  *)

\* the proposals the planning backend may put in a payload
ProposalPool ==
    { Proposal("Walk", At(2, 9), At(2, 10)),
      Proposal("Meditate", At(3, 8), At(3, 9)),
      Proposal("Read", At(2, 20), At(2, 21)),
      Proposal("Stretch", InvalidDate, InvalidDate) }

ProposalLists == UNION { [1..n -> ProposalPool] : n \in 1..MaxProposals }

InitReview ==
    /\ messages = << Greeting, UserMsg(<<"schedule">>) >>
    /\ inputMessage = <<>>
    /\ activeEmail = "user@example.com"
    /\ currentSessionId = NoSession
    /\ pendingProposals = <<>>
    /\ awaitingConsent = FALSE
    /\ currentDayProposals = <<>>
    /\ currentDayIndex = 0
    /\ groupedProposals = <<>>
    /\ awaitingDayConsent = FALSE
    /\ tzOffset \in TZOffsets
    /\ handlers = {}
    /\ \E ps \in ProposalLists :
          /\ timers = << StartReviewTimer(ps, 1) >>
          /\ lastPlan = PlanResult(TRUE, ps)
    /\ sends = 1
    /\ InitCheckin
    /\ InitTimer

SpecReview == InitReview /\ [][FireTimer]_vars

\* a whole review: the client is in UTC, every start of the list is a date,
\* and the user goes on to send messages while the calls settle and the
\* timers fire
InitReviewRun ==
    /\ InitReview
    /\ tzOffset = 0
    /\ ~ groupingThrows(timers[1].proposals)

NextReviewRun ==
    \/ handleSendMessageLong
    \/ DecisionResponse
    \/ PlanResponse
    \/ SupportResponse
    \/ FireTimer
    \/ ResetConversation

SpecReviewRun == InitReviewRun /\ [][NextReviewRun]_vars

-----------------------------------------------------------------------------
(* useBurnoutTimer: calculateNextInterval, updateBurnoutState, the polling  *)
(* effect.  Times are minutes.                                              *)

MIN_INTERVAL_MIN == 30
MAX_INTERVAL_MIN == 4 * 60
LOGISTIC_STEEPNESS == 4
\* the score is a percentage: score / 100
MaxScore == 100

\* Math.exp is computed in fixed point: ExpScale stands for 1.0
ExpScale == 1000000

RECURSIVE ExpSeries(_, _, _, _)
\* the Taylor series of ExpScale * e^(num/den) from its n-th term on
ExpSeries(num, den, n, term) ==
    IF term = 0 THEN 0
    ELSE term + ExpSeries(num, den, n + 1, (term * num) \div (den * n))

\* ExpScale * Math.exp(num / den), for num >= 0
MathExp(num, den) == ExpSeries(num, den, 1, ExpScale)

\* mutant: the interval grows with the ratio instead of shrinking with it
calculateNextIntervalRising(score) ==
    LET half == MaxScore \div 2
        num == IF score >= half THEN score - half ELSE half - score
        D == ExpScale + MathExp(num, MaxScore \div LOGISTIC_STEEPNESS)
        q == (2 * (MAX_INTERVAL_MIN - MIN_INTERVAL_MIN) * ExpScale) \div D
    IN  IF score >= half
        THEN (2 * MAX_INTERVAL_MIN - q) \div 2
        ELSE (2 * MIN_INTERVAL_MIN + 1 + q) \div 2

\* calculateNextInterval(score).  With x = 4 * (0.5 - score / 100):
\*   ratio = 1 / (1 + e^x),
\*   minutes = MIN + (MAX - MIN) * (1 - ratio)
\*           = MAX - (MAX - MIN) / (1 + e^x)     when x >= 0
\*           = MIN + (MAX - MIN) / (1 + e^(-x))  when x < 0,
\* and Math.round(minutes) = floor(minutes + 1/2).  q and r are quotient and
\* remainder of 2 * (MAX - MIN) / (1 + e^|x|).
calculateNextInterval(score) ==
    LET half == MaxScore \div 2
        num == IF score <= half THEN half - score ELSE score - half
        D == ExpScale + MathExp(num, MaxScore \div LOGISTIC_STEEPNESS)
        P == 2 * (MAX_INTERVAL_MIN - MIN_INTERVAL_MIN) * ExpScale
        q == P \div D
        r == P % D
    IN  IF score <= half
        THEN IF r = 0 THEN (2 * MAX_INTERVAL_MIN + 1 - q) \div 2
                      ELSE (2 * MAX_INTERVAL_MIN - q) \div 2
        ELSE (2 * MIN_INTERVAL_MIN + 1 + q) \div 2

\* the scores handed to updateBurnoutState
Scores == 0..MaxScore

\* the numbers of question ids handed to updateBurnoutState at once
IdCounts == {4, 5}

\* needsInitialQuestions of the hook
hookNeedsInitialQuestions == burnoutState.questionsCompleted < 5

\* what the hook returns as questionsAvailable
hookReportsAvailable == hookQuestionsAvailable \/ hookNeedsInitialQuestions

\* updateBurnoutState(newScore, questionIds), questionIds holding n ids; the
\* copy written to localStorage is removed at mount and never read
updateBurnoutStateWith(newScore, n) ==
    /\ burnoutState.questionsCompleted + n <= MaxCompleted
    /\ burnoutState' =
           [score |-> newScore,
            lastEval |-> now,
            questionsCompleted |-> burnoutState.questionsCompleted + n,
            nextQuestionDue |-> now + calculateNextInterval(newScore)]
    /\ hookQuestionsAvailable' = FALSE
    /\ UNCHANGED << chatVars, checkinVars >>

\* the hook called with a score of the scale
updateBurnoutState ==
    \E newScore \in Scores : \E n \in IdCounts : updateBurnoutStateWith(newScore, n)

\* the setInterval callback of the polling effect, which runs while a due
\* time is set and the initial questions are done
PollDue ==
    /\ burnoutState.nextQuestionDue # NoTime
    /\ ~ hookNeedsInitialQuestions
    /\ hookQuestionsAvailable' =
           IF now >= burnoutState.nextQuestionDue THEN TRUE ELSE hookQuestionsAvailable
    /\ UNCHANGED << chatVars, checkinVars, burnoutState >>

\* the clock reaches the minute before the due time, or the due time
TimerTick ==
    /\ burnoutState.nextQuestionDue # NoTime
    /\ \E t \in {burnoutState.nextQuestionDue - 1, burnoutState.nextQuestionDue} :
          /\ t > now
          /\ now' = t
    /\ UNCHANGED << chatVars, questionnaireVars, timerVars >>

NextTimer == updateBurnoutState \/ PollDue \/ TimerTick

SpecTimer == Init /\ [][NextTimer]_vars

\* how far off the scale a score handed to the hook may be
ScoreMargin == 10

\* newScore is a number: nothing keeps a caller to the scale
AnyScores == (0 - ScoreMargin)..(MaxScore + ScoreMargin)

\* the hook called with any score
updateBurnoutStateAny ==
    \E newScore \in AnyScores : \E n \in IdCounts : updateBurnoutStateWith(newScore, n)

NextTimerAny == updateBurnoutStateAny \/ PollDue \/ TimerTick

SpecTimerAny == Init /\ [][NextTimerAny]_vars

-----------------------------------------------------------------------------
(* MainApp: the check-in questionnaire *)

\* the user's clicks on the check-in button and on the answer buttons in a run
MaxClicks == 6
\* the check-in calls in flight at a time (a double click makes two)
MaxInFlight == 2

\* the backend of /api/manager/checkin: the burnout scores it reports, the
\* question it hands out next, and next_interval_min of the answer that makes
\* the count of answers `count`: 0 during the initial assessment, the
\* scheduler's interval from the 5th answer on
BackendScores == {0, 100}
BackendNextQ == answered + 1
BackendInterval(count, bs) == IF count < 5 THEN 0 ELSE calculateNextInterval(bs)

\* what a call of the check-in backend settles with
CheckinOutcomes == [ok : {FALSE}, bs : {0}] \cup [ok : {TRUE}, bs : BackendScores]

\* one invocation of submitAnswer or of the modal's effect, suspended at pc;
\* qid, needs and email are what the closure captured, sid is the session the
\* planning backend opens for its call (a fresh one with every call); earlier
\* records that the modal was opened again while the answer call was in flight
\* (the program keeps no such mark, the properties read it)
CheckinHandler(pc) ==
    [pc |-> pc, qid |-> currentQ, needs |-> needsInitialQuestions, email |-> activeEmail,
     sid |-> NoSession, earlier |-> FALSE]

\* checkins is the bag of the invocations in flight: h starts, ends, goes on as h2
Starts(h) == checkins' = checkins (+) SetToBag({h})
Leaves(h) == checkins' = checkins (-) SetToBag({h})
GoesOn(h, h2) == checkins' = (checkins (-) SetToBag({h})) (+) SetToBag({h2})

\* an answer call in flight when the modal opens was made in an earlier opening
FromEarlierOpening(h) == IF h.pc = "awaitAnswer" THEN [h EXCEPT !.earlier = TRUE] ELSE h

\* the invocations in flight, as a new opening of the modal finds them
AtNewOpening(B) ==
    [t \in { FromEarlierOpening(h) : h \in BagToSet(B) } |->
        IF t.pc = "awaitAnswer"
        THEN CopiesIn(t, B) + CopiesIn([t EXCEPT !.earlier = FALSE], B)
        ELSE CopiesIn(t, B)]

\* "Hmm, I couldn't record that answer. Please try again."
AnswerError == Buddy("answerError")
\* "Thanks for completing your check-in."
ThanksMsg == Buddy("checkinThanks")
\* "To suggest restorative activities, please connect your Google Calendar ..."
ConnectMsg == Buddy("connectCalendar")

\* onClick of the check-in button: the modal opens and its effect loads the
\* first question; the user has clicked fewer than budget times
OpenModal(budget) ==
    /\ questionsAvailable
    /\ ~ isQuestionnaireOpen
    /\ clicks < budget
    /\ BagCardinality(checkins) < MaxInFlight
    /\ clicks' = clicks + 1
    /\ isQuestionnaireOpen' = TRUE
    /\ initialCount' = 0
    /\ checkins' = AtNewOpening(checkins) (+) SetToBag({CheckinHandler("awaitOpenQ")})
    /\ UNCHANGED << chatVars, timerVars, now, questionsAvailable, needsInitialQuestions,
                    cooldownUntil, burnoutScore, currentQ, wakes, answered >>

\* onClick of the modal's Close button
CloseQuestionnaire ==
    /\ isQuestionnaireOpen
    /\ isQuestionnaireOpen' = FALSE
    /\ UNCHANGED << chatVars, timerVars, now, questionsAvailable, needsInitialQuestions,
                    cooldownUntil, burnoutScore, currentQ, initialCount, wakes, checkins,
                    answered, clicks >>

\* onClick of an answer button: submitAnswer up to its await of answerQuestion
AnswerClick(budget) ==
    /\ isQuestionnaireOpen
    /\ currentQ # NoQuestion
    /\ clicks < budget
    /\ BagCardinality(checkins) < MaxInFlight
    /\ clicks' = clicks + 1
    /\ Starts(CheckinHandler("awaitAnswer"))
    /\ UNCHANGED << chatVars, timerVars, now, questionsAvailable, needsInitialQuestions,
                    isQuestionnaireOpen, cooldownUntil, burnoutScore, currentQ, initialCount,
                    wakes, answered >>

\* mutant: the cooldown is set whatever next_interval_min is
answerQuestionAlwaysCooldown(bs, mins) ==
    /\ burnoutScore' = bs
    /\ cooldownUntil' = now + mins
    /\ wakes' = wakes \cup { now + mins }

\* answerQuestion after its fetch resolved with { bs, next_interval_min: mins }
answerQuestion(bs, mins) ==
    /\ burnoutScore' = bs
    /\ IF mins > 0
       THEN /\ cooldownUntil' = now + mins
            /\ wakes' = wakes \cup { now + mins }
       ELSE UNCHANGED << cooldownUntil, wakes >>

\* setQuestionsAvailable(false) of answerQuestion
CooldownStarts(mins) == mins > 0

\* submitAnswer goes on to the next question
MoreInitialQuestions(h) == initialCount + 1 < 5 /\ h.needs

\* the answer call of the submitAnswer h settles with out, next_interval_min
\* being mins, and the handler runs to its next await or to its end
AnswerSettles(h, out, mins) ==
        /\ h.pc = "awaitAnswer"
        /\ IF ~ out.ok
           THEN /\ Leaves(h)
                /\ messages' = Append(messages, AnswerError)
                /\ UNCHANGED << questionsAvailable, needsInitialQuestions, isQuestionnaireOpen,
                                cooldownUntil, burnoutScore, initialCount, wakes, answered >>
           ELSE /\ answered' = answered + 1
                /\ answerQuestion(out.bs, mins)
                /\ initialCount' = initialCount + 1
                /\ IF MoreInitialQuestions(h)
                   THEN /\ GoesOn(h, [h EXCEPT !.pc = "awaitNext"])
                        /\ questionsAvailable' =
                               IF CooldownStarts(mins) THEN FALSE ELSE questionsAvailable
                        /\ UNCHANGED << messages, needsInitialQuestions, isQuestionnaireOpen >>
                   ELSE /\ needsInitialQuestions' = FALSE
                        /\ isQuestionnaireOpen' = FALSE
                        /\ questionsAvailable' = FALSE
                        /\ IF h.email = "null"
                           THEN /\ messages' = Append(Append(messages, ThanksMsg), ConnectMsg)
                                /\ Leaves(h)
                           ELSE /\ messages' = Append(messages, ThanksMsg)
                                /\ GoesOn(h, [h EXCEPT !.pc = "awaitAutoPlan",
                                                       !.sid = answered + 1])
        /\ UNCHANGED << inputMessage, activeEmail, currentSessionId, pendingProposals,
                        awaitingConsent, currentDayProposals, currentDayIndex,
                        groupedProposals, awaitingDayConsent, tzOffset, handlers, timers,
                        lastPlan, sends >>
        /\ UNCHANGED << timerVars, now, currentQ, clicks >>

\* an answer call settles, answered by the backend of the sequencing rule
AnswerResponse ==
    \E h \in BagToSet(checkins) : \E out \in CheckinOutcomes :
        AnswerSettles(h, out, BackendInterval(answered + 1, out.bs))

\* the fetch of loadNextQuestion settles: for the modal's effect a failure
\* clears the question, in submitAnswer it is caught with the answer's message
NextQuestionResponse ==
    \E h \in BagToSet(checkins) : \E ok \in BOOLEAN :
        /\ h.pc \in {"awaitOpenQ", "awaitNext"}
        /\ Leaves(h)
        /\ IF ok
           THEN currentQ' = BackendNextQ /\ UNCHANGED messages
           ELSE IF h.pc = "awaitOpenQ"
           THEN currentQ' = NoQuestion /\ UNCHANGED messages
           ELSE messages' = Append(messages, AnswerError) /\ UNCHANGED currentQ
        /\ UNCHANGED << inputMessage, activeEmail, currentSessionId, pendingProposals,
                        awaitingConsent, currentDayProposals, currentDayIndex,
                        groupedProposals, awaitingDayConsent, tzOffset, handlers, timers,
                        lastPlan, sends >>
        /\ UNCHANGED << timerVars, now, questionsAvailable, needsInitialQuestions,
                        isQuestionnaireOpen, cooldownUntil, burnoutScore, initialCount, wakes,
                        answered, clicks >>

\* what the planning call of submitAnswer settles with: the fetch rejects, the
\* planner fails, or it answers with no proposal or with two
AutoPlanResponses ==
    { r \in PlanResponses :
        \/ r.status \in {0, 500}
        \/ r.raw_text \in { << " ", "Analysis", " " >>,
                            << "Analysis", "<response>", "<payload>", "{two}", "</payload>" >> } }

\* planWithManager(3) of submitAnswer settles and the handler runs to its end;
\* whatever is thrown on the way is caught with the answer's message
AutoPlanResponse ==
    \E h \in BagToSet(checkins) : \E resp \in AutoPlanResponses :
        /\ h.pc = "awaitAutoPlan"
        /\ Leaves(h)
        /\ IF resp.status = 0
           THEN /\ messages' = Append(messages, AnswerError)
                /\ UNCHANGED << groupedProposals, currentDayIndex, currentSessionId,
                                currentDayProposals, awaitingDayConsent >>
           ELSE IF ~ PlanOk(resp)
           THEN /\ messages' = Append(messages, PlannerMessage(resp))
                /\ UNCHANGED << groupedProposals, currentDayIndex, currentSessionId,
                                currentDayProposals, awaitingDayConsent >>
           ELSE LET plan == ParsedPlan(resp.raw_text)
                    msgs == IF plan.detailedAnalysis # <<>>
                            THEN Append(messages, BuddyText("analysis", plan.detailedAnalysis))
                            ELSE messages
                IN  IF Len(plan.proposals) = 0
                    THEN UNCHANGED << messages, groupedProposals, currentDayIndex,
                                      currentSessionId, currentDayProposals, awaitingDayConsent >>
                    ELSE IF groupingThrows(plan.proposals)
                    THEN /\ messages' = Append(msgs, AnswerError)
                         /\ UNCHANGED << groupedProposals, currentDayIndex, currentSessionId,
                                         currentDayProposals, awaitingDayConsent >>
                    ELSE startDayByDayApproval(plan.proposals, h.sid, msgs)
        /\ UNCHANGED << inputMessage, activeEmail, pendingProposals, awaitingConsent, tzOffset,
                        handlers, timers, lastPlan, sends >>
        /\ UNCHANGED << timerVars, now, questionsAvailable, needsInitialQuestions,
                        isQuestionnaireOpen, cooldownUntil, burnoutScore, currentQ, initialCount,
                        wakes, answered, clicks >>

\* a callback of answerQuestion's setTimeout runs, at or after its time
FireWake ==
    \E w \in wakes :
        /\ w <= now
        /\ wakes' = wakes \ {w}
        /\ questionsAvailable' = TRUE
        /\ UNCHANGED << chatVars, timerVars, now, needsInitialQuestions, isQuestionnaireOpen,
                        cooldownUntil, burnoutScore, currentQ, initialCount, checkins, answered,
                        clicks >>

\* time passes, up to the next wake-up
CheckinTick ==
    \E w \in wakes :
        /\ w > now
        /\ now' = w
        /\ UNCHANGED << chatVars, questionnaireVars, timerVars >>

OpenQuestionnaire == OpenModal(MaxClicks)
submitAnswer == AnswerClick(MaxClicks)

\* everything but the user's clicks on the check-in and the answer buttons
CheckinBackground ==
    \/ CloseQuestionnaire
    \/ AnswerResponse
    \/ NextQuestionResponse
    \/ AutoPlanResponse
    \/ FireWake
    \/ CheckinTick

\* the calendar is connected before the first check-in, the order the flashing
\* buttons lead the user through
ConnectFirst == clicks = 0 /\ checkAuthStatus

NextCheckin == OpenQuestionnaire \/ submitAnswer \/ CheckinBackground \/ ConnectFirst

\* the check-in of a client in UTC
InitCheckinRun == Init /\ tzOffset = 0

SpecCheckin == InitCheckinRun /\ [][NextCheckin]_vars

\* the same program with one more click in a run
OpenQuestionnaireLong == OpenModal(MaxClicks + 1)
submitAnswerLong == AnswerClick(MaxClicks + 1)

NextCheckinLong ==
    OpenQuestionnaireLong \/ submitAnswerLong \/ CheckinBackground \/ ConnectFirst

SpecCheckinLong == InitCheckinRun /\ [][NextCheckinLong]_vars

\* Number(data.next_interval_min || 0) for what the response may hold: the
\* interval of the sequencing rule, or 0, or no such field
AnyIntervals(count, bs) == {0, BackendInterval(count, bs)}

\* an answer call settles, whatever the backend puts into next_interval_min
AnswerResponseAny ==
    \E h \in BagToSet(checkins) : \E out \in CheckinOutcomes :
        \E mins \in AnyIntervals(answered + 1, out.bs) : AnswerSettles(h, out, mins)

NextCheckinAny ==
    \/ OpenQuestionnaire
    \/ submitAnswer
    \/ CloseQuestionnaire
    \/ AnswerResponseAny
    \/ NextQuestionResponse
    \/ AutoPlanResponse
    \/ FireWake
    \/ CheckinTick
    \/ ConnectFirst

\* every call settles, every timer fires and time goes on; the user may stop
\* clicking
CheckinFairness ==
    /\ WF_vars(AnswerResponseAny)
    /\ WF_vars(NextQuestionResponse)
    /\ WF_vars(AutoPlanResponse)
    /\ WF_vars(FireWake)
    /\ WF_vars(CheckinTick)

SpecCheckinAny == InitCheckinRun /\ [][NextCheckinAny]_vars /\ CheckinFairness

-----------------------------------------------------------------------------
(* Properties *)

\* this step is the user submitting a message
IsSubmit == sends' = sends + 1

\* the text of the message submitted in this step, as the router reads it
Submitted == messages'[Len(messages) + 1].text

\* the consent whitelists, as the specification words them
SaysYes(text) ==
    Len(text) = 1 /\ toLowerCase(text[1]) \in {"y", "yes", "approve", "ok", "okay", "sure"}
SaysNo(text) ==
    Len(text) = 1 /\ toLowerCase(text[1]) \in {"n", "no", "cancel", "skip"}
HasKeyword(text) ==
    \E i \in 1..Len(text) :
        toLowerCase(text[i]) \in {"plan", "schedule", "add", "block", "book", "insert"}

\* the handlers suspended in the decision loop of a day
DayHandlers == { hr \in handlers : hr.pc = "awaitDecision" }

\* the handler hr has run to its end in this step
Ends(hr) == hr \in handlers /\ \A h2 \in handlers' : h2.id # hr.id

\* the handler hr is still suspended after this step, as h2
Continues(hr, h2) == hr \in handlers /\ h2 \in handlers' /\ h2.id = hr.id

CountOf(seq, x) == Cardinality({ k \in 1..Len(seq) : seq[k] = x })

\* C1: while awaitingDayConsent is true, a submitted message that contains a
\* scheduling keyword gets the day re-prompt and starts no call at all (so no
\* planning call): the chat log grows by the user message and one re-prompt,
\* no handler is suspended, no timer is set, no plan is returned.
C1_KeywordDuringDayReview ==
    [][ (IsSubmit /\ awaitingDayConsent /\ HasKeyword(Submitted))
        => /\ messages' = messages \o << UserMsg(Submitted), DayReprompt >>
           /\ handlers' = handlers
           /\ timers' = timers
           /\ lastPlan' = lastPlan ]_vars

\* C1 witness: a keyword message was answered with the day re-prompt
C1_Witness ==
    \E i \in 1..(Len(messages) - 1) :
        /\ messages[i].sender = "user"
        /\ HasKeyword(messages[i].text)
        /\ messages[i + 1] = DayReprompt

\* C2: a message submitted during DayReview that is neither an affirmative nor
\* a negative whitelist word appends exactly one re-prompt, starts no backend
\* call and leaves the session id, the day groups, the day index, the day's
\* proposals and the awaiting flag unchanged (so any number of repetitions do).
C2_InvalidReplyChangesNothing ==
    [][ (IsSubmit /\ awaitingDayConsent /\ ~ SaysYes(Submitted) /\ ~ SaysNo(Submitted))
        => /\ messages' = messages \o << UserMsg(Submitted), DayReprompt >>
           /\ handlers' = handlers
           /\ UNCHANGED << currentSessionId, groupedProposals, currentDayIndex,
                           currentDayProposals, awaitingDayConsent >> ]_vars

\* C2 witness: a reply without keyword and outside the whitelists was answered
\* with the re-prompt, and the review still awaits its first day
C2_Witness ==
    /\ awaitingDayConsent
    /\ currentDayIndex = 0
    /\ messages[Len(messages)] = DayReprompt
    /\ messages[Len(messages) - 1] = UserMsg(<<"yes", "please">>)

\* C3, at every moment: a handler in the decision loop of a day has issued one
\* call per proposal reached so far, all but the last have settled, and every
\* call carries the handler's session id and the accept value of the reply
C3_LoopState ==
    \A hr \in DayHandlers :
        /\ hr.i \in 1..Len(hr.dayProps)
        /\ Len(hr.calls) = hr.i
        /\ Len(hr.results) = hr.i - 1
        /\ \A k \in 1..Len(hr.calls) :
               hr.calls[k] = [session_id |-> hr.sid, accept |-> hr.approve]

\* C3, in every step: a whitelisted reply starts the loop for the current day's
\* proposals with the current session id and the reply's accept value; a call
\* is issued only when the one before it settles; the loop ends only when every
\* proposal of the day has had its call
C3_LoopSteps ==
    /\ (IsSubmit /\ awaitingDayConsent /\ (SaysYes(Submitted) \/ SaysNo(Submitted))
            /\ currentDayProposals # <<>>)
       => \E hr \in handlers' \ handlers :
              /\ handlers' = handlers \cup {hr}
              /\ hr.pc = "awaitDecision"
              /\ hr.dayProps = currentDayProposals
              /\ hr.sid = currentSessionId
              /\ hr.approve = SaysYes(Submitted)
              /\ hr.calls = << [session_id |-> currentSessionId,
                                accept |-> SaysYes(Submitted)] >>
    /\ \A hr \in DayHandlers :
          \/ hr \in handlers'
          \/ Ends(hr) /\ Len(hr.calls) = Len(hr.dayProps)
          \/ \E h2 \in handlers' :
                /\ Continues(hr, h2)
                /\ h2.pc = "awaitDecision"
                /\ h2.dayProps = hr.dayProps /\ h2.sid = hr.sid /\ h2.approve = hr.approve
                /\ h2.calls = Append(hr.calls, [session_id |-> hr.sid, accept |-> hr.approve])
                /\ Len(h2.results) = Len(hr.results) + 1

\* C3: decideDayAccept(accept) issues exactly one decision call per proposal of
\* the current day, each with the session id and the reply's accept value, one
\* after the other, each only after the previous one has completed.
C3_OneCallPerProposalInSequence == [] C3_LoopState /\ [][C3_LoopSteps]_vars

\* C3 witness: the third call of a rejected three-proposal day is in flight
C3_Witness ==
    \E hr \in DayHandlers :
        ~ hr.approve /\ Len(hr.dayProps) = 3 /\ hr.i = 3 /\ hr.sid # NoSession

\* C4, at every moment: in an accepted day the running count is the number of
\* settled calls that succeeded with status scheduled, and no call is retried
C4_CountState ==
    \A hr \in DayHandlers :
        /\ Len(hr.calls) <= Len(hr.dayProps)
        /\ hr.approve => hr.acceptedCount = CountOf(hr.results, "scheduled")

\* C4, in every step: whatever way a call ends, the loop goes on to the next
\* proposal; the day ends after one call per proposal, with a summary whose N
\* is the number of calls that succeeded with status scheduled
C4_CountSteps ==
    \A hr \in DayHandlers :
        hr.approve =>
            \/ hr \in handlers'
            \/ /\ hr.i < Len(hr.dayProps)
               /\ \E h2 \in handlers' : Continues(hr, h2) /\ h2.i = hr.i + 1
            \/ /\ hr.i = Len(hr.dayProps)
               /\ Ends(hr)
               /\ \E last \in {"scheduled", "notScheduled", "failed"} :
                     messages'[Len(messages) + 1] =
                         AddedMsg(CountOf(Append(hr.results, last), "scheduled"),
                                  hr.dayProps[1].dayLabel)

\* C4: in an accepted day a failed decision call is swallowed, the remaining
\* proposals still get their calls, none is retried, and the N of the summary
\* is the number of calls that succeeded with status scheduled.
C4_FailedCallsAreSkippedNotCounted == [] C4_CountState /\ [][C4_CountSteps]_vars

\* C4 witness: three proposals, the first call scheduled, the second failed,
\* and the third call is in flight with a count of one
C4_Witness ==
    \E hr \in DayHandlers :
        /\ hr.approve
        /\ Len(hr.dayProps) = 3
        /\ hr.results = << "scheduled", "failed" >>
        /\ hr.i = 3
        /\ hr.acceptedCount = 1

\* C5: when the decision calls of a day complete, the day's summary is emitted
\* and currentDayIndex advances by exactly one; if another day group remains
\* the review goes on with that day and its prompt is on its way, otherwise a
\* closing message is emitted and the session id, the day groups, the day's
\* proposals, the index and the awaiting flag are cleared.
C5_DayCompletionAdvancesByOne ==
    [][ \A hr \in DayHandlers :
          Ends(hr) =>
            LET keys == DayKeysOf(groupedProposals)
            IN  /\ messages'[Len(messages) + 1].kind \in {"added", "skipped"}
                /\ IF currentDayIndex + 1 < Len(keys)
                   THEN /\ currentDayIndex' = currentDayIndex + 1
                        /\ awaitingDayConsent'
                        /\ groupedProposals' = groupedProposals
                        /\ currentSessionId' = currentSessionId
                        /\ currentDayProposals' = groupedProposals[keys[currentDayIndex + 2]]
                        /\ \E k \in 1..Len(timers') :
                               /\ timers'[k].kind = "dayPrompt"
                               /\ timers'[k].proposals = currentDayProposals'
                   ELSE /\ messages'[Len(messages')] = FinishedMsg
                        /\ currentSessionId' = NoSession
                        /\ groupedProposals' = <<>>
                        /\ currentDayProposals' = <<>>
                        /\ currentDayIndex' = 0
                        /\ ~ awaitingDayConsent' ]_vars

\* C6: a message is never handled while the handler of an earlier message is
\* suspended on a backend call.
C6_HandlersNeverInterleave == [][ IsSubmit => handlers = {} ]_vars

\* C7: at every moment at most one decision call of a day is in flight: two
\* handlers waiting for a decision call never work on the same day of the same
\* session.
C7_OneDecisionCallInFlight ==
    \A h1, h2 \in DayHandlers :
        (h1.sid = h2.sid /\ h1.idx = h2.idx) => h1 = h2

\* the reset-conversation button is pressed in this step
IsReset == messages # << Greeting >> /\ messages' = << Greeting >>

\* C8: a reset of the conversation while a day review awaits a decision clears
\* the proposal session at once: the awaiting flag is off and the session id,
\* the day groups and the day's proposals are empty.
C8_ResetClearsProposalSession ==
    [][ (IsReset /\ awaitingDayConsent)
        => /\ ~ awaitingDayConsent'
           /\ currentSessionId' = NoSession
           /\ groupedProposals' = <<>>
           /\ currentDayProposals' = <<>> ]_vars

\* C9: when the calls of a rejected day complete while the review is on a day
\* that is not its last, the review stays in DayReview on the next day with its
\* day groups and session intact.
C9_NegativeReplyNeverAborts ==
    [][ \A hr \in DayHandlers :
          ( /\ ~ hr.approve
            /\ Ends(hr)
            /\ awaitingDayConsent
            /\ currentDayIndex + 1 < Len(DayKeysOf(groupedProposals)) )
          => /\ awaitingDayConsent'
             /\ groupedProposals' = groupedProposals
             /\ currentSessionId' = currentSessionId
             /\ currentDayIndex' = currentDayIndex + 1 ]_vars

\* C10: when the planning call of a message returns ok with an empty proposal
\* list, no day review is started and exactly one assistant message is
\* emitted.
C10_EmptyPlanSaysNothingToSuggest ==
    [][ \A hr \in handlers :
          ( /\ hr.pc = "awaitPlan" /\ Ends(hr)
            /\ lastPlan'.returned /\ lastPlan'.ok /\ lastPlan'.proposals = <<>> )
          => /\ awaitingDayConsent' = awaitingDayConsent
             /\ timers' = timers
             /\ Len(messages') = Len(messages) + 1
             /\ messages'[Len(messages')].sender = "buddy" ]_vars

\* the pending review timer k runs in this step
StartsReview(k) ==
    /\ k \in 1..Len(timers)
    /\ timers[k].kind = "startReview"
    /\ timers' = RemoveAt(timers, k)

\* a grouped proposal without the day label the grouping added
Plain(p) == [summary |-> p.summary, start |-> p.start, end |-> p.end]

PlainGroup(group) == [i \in 1..Len(group) |-> Plain(group[i])]

\* the calendar date written in a zoneless timestamp
WrittenDate(t) == t \div 24

RECURSIVE TotalLen(_, _)
TotalLen(grouped, keys) ==
    IF keys = {} THEN 0
    ELSE LET k == CHOOSE k \in keys : TRUE
         IN  Len(grouped[k]) + TotalLen(grouped, keys \ {k})

\* grouped is a partition of the list ps by the calendar date of the start
IsDayPartition(ps, grouped) ==
    LET keys == DayKeysOf(grouped)
        members(k) == { grouped[k][i] : i \in 1..Len(grouped[k]) }
    IN  /\ TotalLen(grouped, DOMAIN grouped) = Len(ps)
        /\ \A k \in DOMAIN grouped :
              /\ grouped[k] # <<>>
              /\ PlainGroup(grouped[k]) =
                     SelectSeq(ps, LAMBDA p : \E q \in members(k) : Plain(q) = p)
              /\ \A q1, q2 \in members(k) : WrittenDate(q1.start) = WrittenDate(q2.start)
        /\ \A k1, k2 \in DOMAIN grouped :
              k1 # k2 => \A q1 \in members(k1) : \A q2 \in members(k2) : Plain(q1) # Plain(q2)
        /\ \A i, j \in 1..Len(keys) : i < j => keys[i] < keys[j]

\* C11: for every proposal list the grouping of a starting review is a
\* partition: every proposal is in exactly one group, the proposals of a group
\* share the calendar date of their start, the day keys ascend, each group
\* keeps the input order, and the grouping does not fail.
C11_GroupByDayIsPartition ==
    [][ \A k \in 1..Len(timers) :
          StartsReview(k) => IsDayPartition(timers[k].proposals, groupedProposals') ]_vars

\* the calendar dates written in the starts of a proposal list
WrittenDates(ps) == { WrittenDate(ps[i].start) : i \in 1..Len(ps) }

\* C12: a review started on proposals whose starts carry two calendar dates
\* d1 < d2 sets currentDayIndex to 0, awaits day consent with day groups keyed
\* d1 then d2, and its first prompt is headed d1 and lists only the proposals
\* that start on d1, whatever the timezone offset of the client.
C12_ReviewStartsOnFirstWrittenDate ==
    [][ \A k \in 1..Len(timers) :
          LET ps == timers[k].proposals
          IN  ( /\ StartsReview(k)
                /\ ~ groupingThrows(ps)
                /\ Cardinality(WrittenDates(ps)) = 2 )
              => LET dates == SortKeys(WrittenDates(ps))
                     first == SelectSeq(ps, LAMBDA p : WrittenDate(p.start) = dates[1])
                 IN  /\ currentDayIndex' = 0
                     /\ awaitingDayConsent'
                     /\ DayKeysOf(groupedProposals') = dates
                     /\ messages' = Append(messages, messages'[Len(messages')])
                     /\ messages'[Len(messages')].kind = "dayPrompt"
                     /\ messages'[Len(messages')].day = dates[1]
                     /\ messages'[Len(messages')].items =
                            [i \in 1..Len(first) |-> first[i].summary] ]_vars

\* the sentinel markers of a raw planning text
Markers == {"<response>", "<payload>", "</payload>"}

HasMarker(raw) == \E i \in 1..Len(raw) : raw[i] \in Markers

\* the text that precedes the first marker of raw
BeforeFirstMarker(raw) ==
    LET i == CHOOSE i \in 1..Len(raw) :
                 raw[i] \in Markers /\ \A j \in 1..(i - 1) : raw[j] \notin Markers
    IN  SubSeq(raw, 1, i - 1)

\* the plan returned last was parsed from a raw text
ParsedFromText == lastPlan.returned /\ lastPlan.ok /\ lastPlan.text # <<>>

\* C13: a plan parsed from a raw text that holds no sentinel marker has no
\* proposals and its analysis is the whole text, trimmed.
C13_NoMarkerTextIsAllAnalysis ==
    (ParsedFromText /\ ~ HasMarker(lastPlan.text))
    => /\ lastPlan.proposals = <<>>
       /\ lastPlan.detailedAnalysis = Trim(lastPlan.text)

\* the raw text holds a structured segment whose JSON does not parse
HasMalformedSegment(raw) ==
    /\ HasPayloadMatch(raw)
    /\ \E i \in 1..Len(raw) : raw[i] = "{bad}"
    /\ \A i \in 1..Len(raw) : raw[i] \notin {"{two}", "{three}", "{empty}", "{nokey}"}

\* C14: a raw text whose structured segment is present but whose JSON fails
\* to parse still gives a plan: ok, with no proposals and with the trimmed text
\* that precedes the marker as its analysis.
C14_MalformedSegmentDegrades ==
    (lastPlan.returned /\ HasMalformedSegment(lastPlan.text))
    => /\ lastPlan.ok
       /\ lastPlan.proposals = <<>>
       /\ lastPlan.detailedAnalysis = Trim(BeforeFirstMarker(lastPlan.text))

\* updateBurnoutState has run at least once
HookUpdated == burnoutState.lastEval # NoTime

\* the interval the hook computed for the score it holds, in minutes
HookInterval == burnoutState.nextQuestionDue - burnoutState.lastEval

\* C17 as stated: the interval computed for score 0 is 240 minutes, for score
\* 100 it is 30 minutes and for score 50 it is 135 minutes.
C17_IntervalAtEndsIsMaxAndMin ==
    HookUpdated =>
        /\ burnoutState.score = 0 => HookInterval = 240
        /\ burnoutState.score = 100 => HookInterval = 30
        /\ burnoutState.score = 50 => HookInterval = 135

\* C17 amended: the interval computed for score 0 is 215 minutes, for score
\* 100 it is 55 minutes and for score 50 it is 135 minutes.
C17_IntervalAtEndsOfLogistic ==
    HookUpdated =>
        /\ burnoutState.score = 0 => HookInterval = 215
        /\ burnoutState.score = 100 => HookInterval = 55
        /\ burnoutState.score = 50 => HookInterval = 135

\* C17 witness: the hook was updated with score 0 and the question is due 215
\* minutes later
C17_Witness ==
    HookUpdated /\ burnoutState.score = 0 /\ HookInterval = 215

\* C18, at every moment: the interval computed lies within [30, 240] minutes
C18_IntervalInRange ==
    HookUpdated => HookInterval \in MIN_INTERVAL_MIN..MAX_INTERVAL_MIN

\* C18, for two updates in a row with scores a then b: a <= b implies that
\* the interval of a is at least the interval of b, and the other way round
C18_IntervalSteps ==
    (HookUpdated /\ burnoutState' # burnoutState)
    => /\ burnoutState.score <= burnoutState'.score
          => HookInterval >= burnoutState'.nextQuestionDue - burnoutState'.lastEval
       /\ burnoutState.score >= burnoutState'.score
          => HookInterval <= burnoutState'.nextQuestionDue - burnoutState'.lastEval

\* C18: nextInterval is monotonically non-increasing in the score over
\* [0, 100] and every result lies within [30, 240] minutes.
C18_IntervalNonIncreasing == [] C18_IntervalInRange /\ [][C18_IntervalSteps]_vars

\* C18 witness: a second update, with score 100 and a shorter interval than
\* the longest
C18_Witness ==
    /\ burnoutState.questionsCompleted >= 8
    /\ burnoutState.score = 100
    /\ HookInterval < 215

\* an answer call resolved in this step and the backend counted the answer
AnswerCounted == answered' = answered + 1

\* in this step a submitAnswer left its answer call and went on to fetch the
\* next question
FetchesNextQuestion ==
    \E h \in BagToSet(checkins) :
        /\ h.pc = "awaitAnswer"
        /\ checkins' = (checkins (-) SetToBag({h})) (+) SetToBag({[h EXCEPT !.pc = "awaitNext"]})

C16_AvailableOnlyAfterCooldown ==
    /\ (cooldownUntil # NoTime /\ questionsAvailable) => now >= cooldownUntil
    /\ (burnoutState.nextQuestionDue # NoTime /\ hookQuestionsAvailable)
       => now >= burnoutState.nextQuestionDue

\* a fetch of loadNextQuestion failed in this step: its invocation h ended and
\* the question is not the one the backend hands out
QuestionFetchFails(h) ==
    /\ h.pc \in {"awaitOpenQ", "awaitNext"}
    /\ checkins' = checkins (-) SetToBag({h})
    /\ currentQ' # BackendNextQ

\* C19: a failed question fetch appends exactly one apologetic message to the
\* chat and starts no call again.
C19_FailedFetchSaysSorryOnce ==
    [][ \A h \in BagToSet(checkins) :
            QuestionFetchFails(h)
            => /\ Len(messages') = Len(messages) + 1
               /\ messages'[Len(messages')].kind \in {"answerError", "supportError"} ]_vars

\* the calls started in this step
NewCalls == handlers' \ handlers

\* the replies appended in this step after the user's message
Replies == { messages'[k].kind : k \in (Len(messages) + 2)..Len(messages') }

\* the branch the specification's priority order gives the submitted message
BranchOf ==
    IF awaitingDayConsent THEN "dayConsent"
    ELSE IF awaitingConsent THEN "legacyConsent"
    ELSE IF HasKeyword(Submitted) THEN "scheduling"
    ELSE "support"

\* the calls and the replies that belong to each branch
CallsOf(branch) ==
    CASE branch = "dayConsent" -> {"awaitDecision"}
      [] branch = "legacyConsent" -> {"awaitLegacy", "awaitApply"}
      [] branch = "scheduling" -> {"awaitPlan"}
      [] branch = "support" -> {"awaitSupport"}
OwnReplies(branch) ==
    CASE branch = "dayConsent" -> {"dayReprompt", "added", "skipped", "finishedAll"}
      [] branch = "legacyConsent" -> {"legacyReprompt", "legacyDeclined", "legacyAdded", "legacyError"}
      [] branch = "scheduling" -> {"planner"}
      [] branch = "support" -> {}

\* C20: every submitted message runs exactly one branch of the router, the
\* first in the order day consent, legacy consent, scheduling intent, support:
\* it starts at most one call, a call of that branch, every reply of the step
\* is one of that branch, and the branch does act (a call or a reply).
C20_ExactlyOneBranchByPriority ==
    [][ IsSubmit
        => /\ Cardinality(NewCalls) <= 1
           /\ \A h \in NewCalls : h.pc \in CallsOf(BranchOf)
           /\ Replies \subseteq OwnReplies(BranchOf)
           /\ NewCalls # {} \/ Replies # {} ]_vars

\* C20 witness: two messages were submitted, one without and one with a
\* scheduling keyword, and each has started its one call: a support call and
\* a planning call are in flight
C20_Witness ==
    /\ sends = 2
    /\ Cardinality(handlers) = 2
    /\ \E h \in handlers : h.pc = "awaitSupport" /\ ~ HasKeyword(h.text)
    /\ \E h \in handlers : h.pc = "awaitPlan"

\* C21, at every moment: the decision calls a day's handler has issued all
\* carry the decision of the reply that started it
C21_CallsCarryTheReply ==
    \A h \in DayHandlers : \A k \in 1..Len(h.calls) : h.calls[k].accept = h.approve

\* C21, for a reply submitted in DayReview while the day shown has proposals:
\* no reply is in both whitelists; a reply equal to an affirmative word starts
\* the day's calls with accept = true, a reply equal to a negative word starts
\* them with accept = false, any other reply (one that only contains such a
\* word too) starts no call and gets the re-prompt
C21_ReplySteps ==
    (IsSubmit /\ awaitingDayConsent /\ currentDayProposals # <<>>)
    => /\ ~ (SaysYes(Submitted) /\ SaysNo(Submitted))
       /\ SaysYes(Submitted)
          => \E h \in NewCalls : h.pc = "awaitDecision" /\ h.approve
                                 /\ h.calls = << [session_id |-> currentSessionId, accept |-> TRUE] >>
       /\ SaysNo(Submitted)
          => \E h \in NewCalls : h.pc = "awaitDecision" /\ ~ h.approve
                                 /\ h.calls = << [session_id |-> currentSessionId, accept |-> FALSE] >>
       /\ (~ SaysYes(Submitted) /\ ~ SaysNo(Submitted))
          => /\ NewCalls = {}
             /\ messages' = messages \o << UserMsg(Submitted), DayReprompt >>

\* C21: in DayReview a reply is affirmative exactly when it equals, ignoring
\* case, one of y, yes, approve, ok, okay, sure and negative exactly when it
\* equals one of n, no, cancel, skip; the classes are disjoint, an affirmative
\* reply leads to decision calls with accept = true, a negative one to calls
\* with accept = false, and a reply that only contains such a word is neither.
C21_WhitelistClassification == [] C21_CallsCarryTheReply /\ [][C21_ReplySteps]_vars

\* C21 witness: the reply "Yes" has started a day's calls with accept = true
C21_Witness ==
    /\ messages[Len(messages)] = UserMsg(<< "Yes" >>)
    /\ \E h \in DayHandlers : h.approve /\ h.calls[1].accept

\* this step is a submission while no consent is outstanding
SubmitsFreely == IsSubmit /\ ~ awaitingDayConsent /\ ~ awaitingConsent

\* the step starts exactly one call, a planning call / a support call that
\* carries the submitted text
OnePlanningCall == Cardinality(NewCalls) = 1 /\ \A h \in NewCalls : h.pc = "awaitPlan"
OneSupportCall ==
    Cardinality(NewCalls) = 1 /\ \A h \in NewCalls : h.pc = "awaitSupport" /\ h.text = Submitted

\* C22 as stated: with no consent outstanding, a message with a scheduling
\* keyword starts exactly one planning call and no support call, every other
\* message exactly one support call with its text and no planning call.
C22_KeywordPlansElseSupports ==
    [][ SubmitsFreely
        => IF HasKeyword(Submitted) THEN OnePlanningCall ELSE OneSupportCall ]_vars

\* C22 amended: with no consent outstanding, a message with a scheduling
\* keyword starts exactly one planning call and no support call when a
\* calendar is connected, and no call at all (only the "connect" reply) when
\* none is; every other message starts exactly one support call with its text
\* and no planning call.
C22_KeywordPlansWhenConnected ==
    [][ SubmitsFreely
        => IF HasKeyword(Submitted)
           THEN IF activeEmail # "null"
                THEN OnePlanningCall
                ELSE /\ NewCalls = {}
                     /\ messages' = messages \o
                            << UserMsg(Submitted),
                               BuddyText("planner", <<"Please connect Google Calendar first.">>) >>
           ELSE OneSupportCall ]_vars

\* C22 witness: with a calendar connected, the planning call of the keyword
\* message submitted last is the only call in flight
C22_Witness ==
    /\ activeEmail # "null"
    /\ messages[Len(messages)].sender = "user"
    /\ HasKeyword(messages[Len(messages)].text)
    /\ Cardinality(handlers) = 1
    /\ \A h \in handlers : h.pc = "awaitPlan"

\* the proposal list as the backend emitted it
ParsedList == lastPlan.proposals

\* the day of the review that the handler h decides
DayOf(h) == DayKeysOf(h.groups)[h.idx + 1]

\* the day summaries in the chat: one per day closed
ClosedDays == Cardinality({ k \in 1..Len(messages) : messages[k].kind \in {"added", "skipped"} })

\* h decides a day of the review of ParsedList, it is the only handler, and
\* every earlier day was closed once
OrderlyReview(h) ==
    /\ h.groups = groupProposalsByDay(ParsedList, tzOffset)
    /\ handlers = {h}
    /\ ClosedDays = h.idx

\* the number the call in flight of h has among the decision calls of the
\* review: the calls of the earlier days, then its own
CallNumber(h) ==
    Cardinality({ i \in 1..Len(ParsedList) : DayKey(ParsedList[i], tzOffset) < DayOf(h) }) + h.i

\* the chat shows that the day with this label was accepted
DecidedYes(label) ==
    \E k \in 1..Len(messages) : messages[k].kind = "added" /\ messages[k].day = label

\* C23: in an orderly review the k-th decision call carries the decision of
\* the day that holds the k-th proposal of the emitted list: the proposal is of
\* the day being decided, or of an earlier day with the same decision (a later
\* day's decision is still open).
C23_CallsFollowEmissionOrder ==
    \A h \in DayHandlers :
        OrderlyReview(h)
        => LET p == ParsedList[CallNumber(h)]
           IN  \/ DayKey(p, tzOffset) >= DayOf(h)
               \/ h.approve = DecidedYes(DayLabel(p))

\* C24: the score is clamped to [0, 100] before the interval is computed: a
\* score below 0 gets the interval of 0, a score above 100 the interval of
\* 100 (and the update is made, not rejected).
C24_ScoreIsClamped ==
    HookUpdated
    => /\ burnoutState.score < 0 => HookInterval = calculateNextInterval(0)
       /\ burnoutState.score > MaxScore => HookInterval = calculateNextInterval(MaxScore)

\* an answer has closed the questionnaire for good and the questions are
\* unavailable
ClosedAndUnavailable == ~ needsInitialQuestions /\ ~ isQuestionnaireOpen /\ ~ questionsAvailable

\* C25: after an answer has closed the questionnaire and made the questions
\* unavailable, they become available again, whatever next_interval_min the
\* answer's response held.
C25_AvailableAgain == ClosedAndUnavailable ~> questionsAvailable

\* the 1000 ms timer that will show the prompt of this day is still pending
PromptPending(dayProps) ==
    \E k \in 1..Len(timers) : timers[k] = DayPromptTimer(dayProps)

\* the day prompts of the chat log, in the order they were shown
DayPrompts == SelectSeq(messages, LAMBDA m : m.kind = "dayPrompt")

\* the prompt of this day is in the chat log
PromptShown(dayProps) ==
    \E k \in 1..Len(DayPrompts) : DayPrompts[k] = DayPromptMsg(dayProps)

\* C26: a consent reply starts decision calls only for a day whose prompt has
\* been shown (not for one whose prompt still waits for its timer), and the
\* day it decides is the day of the most recent day prompt of the chat.
C26_RepliesApplyToShownDay ==
    [][ IsSubmit
        => \A h \in handlers' \ handlers :
              h.pc = "awaitDecision"
              => /\ PromptPending(h.dayProps) => PromptShown(h.dayProps)
                 /\ DayPrompts # <<>>
                    => DayPrompts[Len(DayPrompts)] = DayPromptMsg(h.dayProps) ]_vars

\* the user's messages of the chat log
UserTexts == SelectSeq(messages, LAMBDA m : m.sender = "user")

\* the run is one review: the chat was never cleared (every submission is in
\* the log) and no message after the first could start another planning call
OneReview ==
    /\ Len(UserTexts) = sends
    /\ \A k \in 2..Len(UserTexts) : ~ HasKeyword(UserTexts[k].text)

\* the number of proposals of the plan that have this day label
DaySize(label) ==
    Cardinality({ k \in 1..Len(ParsedList) : DayLabel(ParsedList[k]) = label })

RECURSIVE ClosedDayCalls(_)
\* the decision calls of the invocations that have run to their end: each left
\* one summary line in the first n messages, after one call per proposal of
\* its day
ClosedDayCalls(n) ==
    IF n = 0 THEN 0
    ELSE ClosedDayCalls(n - 1)
         + (IF messages[n].kind \in {"added", "skipped"} THEN DaySize(messages[n].day) ELSE 0)

RECURSIVE OpenDayCalls(_)
\* the decision calls issued so far by the invocations of the set H
OpenDayCalls(H) ==
    IF H = {} THEN 0
    ELSE LET h == CHOOSE x \in H : TRUE
         IN  Len(h.calls) + OpenDayCalls(H \ {h})

\* every decision call issued since the review started
IssuedCalls == ClosedDayCalls(Len(messages)) + OpenDayCalls(DayHandlers)

\* the review has reached Finished
ReviewFinished ==
    /\ messages[Len(messages)] = FinishedMsg
    /\ DayHandlers = {}
    /\ ~ awaitingDayConsent

\* C27: when a review has reached Finished, the decision calls issued in it
\* are as many as the proposals of the plan (one call for each proposal),
\* whatever the user sent in between.
C27_OneCallPerProposal ==
    (OneReview /\ ReviewFinished) => IssuedCalls = Len(ParsedList)

\* D: the number of day groups of the plan under review
DayGroups == Len(DayKeysOf(groupProposalsByDay(ParsedList, tzOffset)))

\* the review has started: its first day prompt is in the chat
ReviewStarted == DayPrompts # <<>>

\* the position of the first day prompt in the chat log
FirstPromptAt == CHOOSE k \in 1..Len(messages) :
                    /\ messages[k].kind = "dayPrompt"
                    /\ \A j \in 1..(k - 1) : messages[j].kind # "dayPrompt"

\* the whitelisted replies the user has sent since the review started
WhitelistedReplies ==
    Cardinality({ k \in (FirstPromptAt + 1)..Len(messages) :
                    /\ messages[k].sender = "user"
                    /\ SaysYes(messages[k].text) \/ SaysNo(messages[k].text) })

\* while a decision is awaited the review is on one of its D days and the
\* current day's proposals are the non-empty group at that index
C28_CurrentDayIsGroupAtIndex ==
    awaitingDayConsent
    => /\ currentDayIndex < Len(DayKeysOf(groupedProposals))
       /\ currentDayProposals = groupedProposals[DayKeysOf(groupedProposals)[currentDayIndex + 1]]
       /\ currentDayProposals # <<>>

\* C28: a review of D day groups is Finished after exactly D whitelisted
\* replies: once every call of k replies has returned or failed, the review
\* awaits the decision of day k (k < D) or has finished (k >= D), however
\* many other replies were sent; and while a decision is awaited the current
\* day's proposals are the non-empty group at currentDayIndex < D.
C28_FinishedAfterDReplies ==
    /\ C28_CurrentDayIsGroupAtIndex
    /\ (OneReview /\ ReviewStarted /\ handlers = {})
       => IF WhitelistedReplies < DayGroups
          THEN awaitingDayConsent /\ currentDayIndex = WhitelistedReplies
          ELSE /\ ~ awaitingDayConsent
               /\ \E k \in 1..Len(messages) : messages[k] = FinishedMsg

\* what only the legacy all-at-once consent says in the chat
LegacyKinds == {"legacyAdded", "legacyError", "legacyDeclined", "legacyReprompt"}

\* C29: awaitingConsent is false and pendingProposals is empty in every
\* reachable state, and the legacy consent branch and the batch apply loop
\* never run: no invocation is suspended in them and nothing they say is in
\* the chat.
C29_LegacyConsentNeverRuns ==
    /\ awaitingConsent = FALSE
    /\ pendingProposals = <<>>
    /\ \A h \in handlers : h.pc \notin {"awaitLegacy", "awaitApply"}
    /\ \A k \in 1..Len(messages) : messages[k].kind \notin LegacyKinds

\* a plan with proposals has returned and the user has accepted a day of it:
\* the consent went through the day review, not the legacy branch
C29_Witness ==
    /\ lastPlan.ok /\ lastPlan.proposals # <<>>
    /\ ~ awaitingConsent
    /\ \E h \in handlers : h.pc = "awaitDecision" /\ h.approve /\ Len(h.calls) = 1

\* the answer of the submitAnswer h is recorded in this step
AnswerOf(h) ==
    /\ h.pc = "awaitAnswer"
    /\ AnswerCounted
    /\ CopiesIn(h, checkins') < CopiesIn(h, checkins)

\* the initial assessment completes in this step
Completes == needsInitialQuestions /\ ~ needsInitialQuestions'

\* the assessment completes exactly with the 5th answer counted since the
\* modal was opened
C30_CompletesAtFive ==
    /\ Completes => AnswerCounted /\ initialCount' = 5
    /\ (AnswerCounted /\ needsInitialQuestions /\ initialCount' = 5) => Completes

\* an answer submitted in an earlier opening is not counted in this one
C30_EarlierAnswersDoNotCount ==
    \A h \in BagToSet(checkins) :
        (AnswerOf(h) /\ h.earlier) => initialCount' = initialCount

\* once completed, needsInitialQuestions is never true again
C30_CompletedForGood == ~ needsInitialQuestions => ~ needsInitialQuestions'

\* after the completion an opening closes with its first answered question
C30_LaterOpeningsTakeOneAnswer ==
    (AnswerCounted /\ ~ needsInitialQuestions /\ isQuestionnaireOpen)
    => ~ isQuestionnaireOpen' /\ initialCount' = 1

\* C30: the initial assessment completes exactly when 5 answers have been
\* submitted within one opening of the modal (opening it resets the count, so
\* the answers of an earlier opening do not count); once completed,
\* needsInitialQuestions is never true again and every later opening closes
\* after exactly one answered question.
C30_FiveAnswersInOneOpening ==
    [][ /\ C30_CompletesAtFive
        /\ C30_EarlierAnswersDoNotCount
        /\ C30_CompletedForGood
        /\ C30_LaterOpeningsTakeOneAnswer ]_vars

====
